---- MODULE Spec2Model ----
(***************************************************************************)
(* Model of the Traverse wallet (crates/wallet/src/lib.rs): the           *)
(* wallet_sendTransaction handler of TraverseWallet, its request policy   *)
(* validate_tx_request, the serialization permit (a tokio Mutex<()>) and   *)
(* the two Upstream backends (AlloyUpstream, RethUpstream).                *)
(*                                                                         *)
(* Every request is one asynchronous task.  An action of the model is the *)
(* code a task runs between two suspension points (.await), so the        *)
(* interleavings of the actions are the interleavings of the tasks.       *)
(***************************************************************************)
EXTENDS Integers, Sequences, FiniteSets, TLC

(***************************************************************************)
(* Bounds of the model.                                                    *)
(***************************************************************************)
\* number of concurrent send_transaction calls
NumReqs == 2
\* largest caller-supplied value / nonce / gas field
MaxField == 1
\* the gas estimates the backend may return lie within GasSpread of the cap
GasSpread == 1
\* largest base fee / priority fee the fee estimator may return
MaxFee == 1

Reqs == 1..NumReqs
NoReq == 0

(***************************************************************************)
(* Option<T>, Address, Bytes, TxKind.                                      *)
(***************************************************************************)
None == [some |-> FALSE]
Some(x) == [some |-> TRUE, val |-> x]
is_some(o) == o.some

\* Address: 20 bytes.  AddressOf(n) is the address whose last byte is n.
AddressLen == 20
AddressOf(n) == [i \in 1..AddressLen |-> IF i = AddressLen THEN n ELSE 0]
\* Address::ZERO / Address::is_zero
AddressZero == AddressOf(0)
is_zero(addr) == \A i \in 1..Len(addr) : addr[i] = 0

\* TxKind::Create, TxKind::Call(addr)
TxCreate == [kind |-> "Create"]
TxCall(addr) == [kind |-> "Call", addr |-> addr]

\* the service's signer (Upstream::default_signer_address) and chain id
SignerAddress == AddressOf(9)
ServiceChainId == 7

\* addresses known to the model: one destination account, two delegation
\* contracts, a caller-chosen from address
DestAddress == AddressOf(1)
DelegateA == AddressOf(2)
DelegateB == AddressOf(3)
CallerAddress == AddressOf(4)

\* DelegationCapability.addresses: the valid delegation contracts
DelegationCapability == {DelegateA}

\* the EIP-7702 delegation designator prefix 0xef 0x01 0x00
DelegationPrefix == <<239, 1, 0>>
Designator(addr) == DelegationPrefix \o addr

\* bytecodes the destination account may hold
CodeEmpty == <<>>
CodePlain == <<96, 128, 96, 64>>
CodeCleared == Designator(AddressZero)
CodeDelegatedA == Designator(DelegateA)
CodeDelegatedB == Designator(DelegateB)
CodeShort == DelegationPrefix
CodeLong == Designator(DelegateA) \o <<0>>
Bytecodes ==
  {CodeEmpty, CodePlain, CodeCleared, CodeDelegatedA, CodeDelegatedB, CodeShort, CodeLong}

(***************************************************************************)
(* TransactionRequest: the fields of alloy's TransactionRequest that the  *)
(* wallet reads or writes.  authorization_list is modelled by its         *)
(* presence, input by a small number.                                      *)
(***************************************************************************)
OptNumbers == {None} \cup {Some(v) : v \in 0..MaxField}
OptFee == {None, Some(MaxField)}
OptFrom == {None, Some(CallerAddress)}
OptTo == {None, Some(TxCreate), Some(TxCall(DestAddress))}

\* the requests a caller may send
AllRequests ==
  [from : OptFrom, to : OptTo, value : OptNumbers, nonce : OptNumbers,
   gas : OptFee, gas_price : OptFee,
   max_fee_per_gas : {None}, max_priority_fee_per_gas : {None},
   authorization_list : {None, Some(DelegateA)},
   input : {0}, chain_id : {None, Some(ServiceChainId + 1)}]

\* the requests of the concurrent specification, one for each arm of the
\* handler: rejected by the policy, a creation, a call carrying an
\* authorization list, a plain call
ConcRequests ==
  {q \in AllRequests :
     /\ q.from = None /\ q.nonce = None
     /\ q.gas = None /\ q.gas_price = None /\ q.chain_id = None
     /\ q.to # None
     /\ \/ q.value = None /\ (q.authorization_list # None => q.to.val.kind = "Call")
        \/ /\ q.value = Some(MaxField)
           /\ q.authorization_list = None /\ q.to.val.kind = "Call"}

\* TransactionRequest::default()
DefaultRequest ==
  [from |-> None, to |-> None, value |-> None, nonce |-> None,
   gas |-> None, gas_price |-> None,
   max_fee_per_gas |-> None, max_priority_fee_per_gas |-> None,
   authorization_list |-> None, input |-> 0, chain_id |-> None]

(***************************************************************************)
(* TraverseWalletError and the result of a call.                           *)
(***************************************************************************)
Ok(hash) == [ok |-> TRUE, kind |-> "Ok", estimate |-> 0, hash |-> hash]
Err(kind) == [ok |-> FALSE, kind |-> kind, estimate |-> 0, hash |-> 0]
GasEstimateTooHigh(estimate) ==
  [ok |-> FALSE, kind |-> "GasEstimateTooHigh", estimate |-> estimate, hash |-> 0]
NoResult == [ok |-> FALSE, kind |-> "None", estimate |-> 0, hash |-> 0]
\* the caller has received nothing yet
NoResponse == [ok |-> FALSE, hash |-> 0, code |-> 0, message |-> <<>>]

(***************************************************************************)
(* validate_tx_request: "Ok" or the name of the error it returns.          *)
(***************************************************************************)
\* mutants of validate_tx_request: the value check off by one, the from
\* check before the value check, the nonce check before the from check
validate_value_off_by_one(request) ==
  IF is_some(request.value) /\ request.value.val > 1 THEN "ValueNotZero"
  ELSE IF is_some(request.from) THEN "FromSet"
  ELSE IF is_some(request.nonce) THEN "NonceSet"
  ELSE "Ok"

validate_from_first(request) ==
  IF is_some(request.from) THEN "FromSet"
  ELSE IF is_some(request.value) /\ request.value.val > 0 THEN "ValueNotZero"
  ELSE IF is_some(request.nonce) THEN "NonceSet"
  ELSE "Ok"

validate_nonce_before_from(request) ==
  IF is_some(request.value) /\ request.value.val > 0 THEN "ValueNotZero"
  ELSE IF is_some(request.nonce) THEN "NonceSet"
  ELSE IF is_some(request.from) THEN "FromSet"
  ELSE "Ok"

\* mutant of validate_tx_request: the nonce check is missing
validate_without_nonce_check(request) ==
  IF is_some(request.value) /\ request.value.val > 0 THEN "ValueNotZero"
  ELSE IF is_some(request.from) THEN "FromSet"
  ELSE "Ok"

validate_tx_request(request) ==
  IF is_some(request.value) /\ request.value.val > 0 THEN "ValueNotZero"
  ELSE IF is_some(request.from) THEN "FromSet"
  ELSE IF is_some(request.nonce) THEN "NonceSet"
  ELSE "Ok"

(***************************************************************************)
(* The destination match of send_transaction on                            *)
(* (request.authorization_list.is_some(), request.to): the first arm      *)
(* looks the code up, the second lets the request through, the last       *)
(* rejects it.                                                             *)
(***************************************************************************)
\* mutant of DestinationArm: the arms matched on `to` before the
\* authorization list
DestinationArmToFirst(request) ==
  IF is_some(request.to) /\ request.to.val.kind = "Call" THEN "lookup"
  ELSE IF is_some(request.authorization_list) THEN "pass"
  ELSE "reject"

\* mutant of DestinationArm: only an explicit TxKind::Create is rejected
DestinationArmNoToPasses(request) ==
  IF ~is_some(request.authorization_list)
       /\ is_some(request.to) /\ request.to.val.kind = "Call"
  THEN "lookup"
  ELSE IF is_some(request.authorization_list) \/ ~is_some(request.to) THEN "pass"
  ELSE "reject"

DestinationArm(request) ==
  IF ~is_some(request.authorization_list)
       /\ is_some(request.to) /\ request.to.val.kind = "Call"
  THEN "lookup"
  ELSE IF is_some(request.authorization_list) THEN "pass"
  ELSE "reject"

(***************************************************************************)
(* The code match of send_transaction on the bytes get_code returned:     *)
(* [0xef, 0x01, 0x00, address @ ..] binds the rest of the code, whatever   *)
(* its length, and Address::from_slice panics unless it is 20 bytes long.  *)
(***************************************************************************)
HasDelegationPrefix(bytes) ==
  Len(bytes) >= Len(DelegationPrefix)
    /\ SubSeq(bytes, 1, Len(DelegationPrefix)) = DelegationPrefix

\* mutants of CodeArm: the zero address is not checked; only a delegation
\* to an address of the DelegationCapability is accepted; an account without
\* code is let through
CodeArmNoZeroCheck(bytes) ==
  IF HasDelegationPrefix(bytes)
  THEN LET address == SubSeq(bytes, Len(DelegationPrefix) + 1, Len(bytes))
       IN IF Len(address) # AddressLen THEN "panic" ELSE "delegated"
  ELSE "not_delegation"

CodeArmCapabilityOnly(bytes) ==
  IF HasDelegationPrefix(bytes)
  THEN LET address == SubSeq(bytes, Len(DelegationPrefix) + 1, Len(bytes))
       IN IF Len(address) # AddressLen THEN "panic"
          ELSE IF address \in DelegationCapability THEN "delegated"
          ELSE "cleared"
  ELSE "not_delegation"

CodeArmEmptyPasses(bytes) ==
  IF HasDelegationPrefix(bytes)
  THEN LET address == SubSeq(bytes, Len(DelegationPrefix) + 1, Len(bytes))
       IN IF Len(address) # AddressLen THEN "panic"
          ELSE IF is_zero(address) THEN "cleared"
          ELSE "delegated"
  ELSE IF bytes = <<>> THEN "delegated"
  ELSE "not_delegation"

CodeArm(bytes) ==
  IF HasDelegationPrefix(bytes)
  THEN LET address == SubSeq(bytes, Len(DelegationPrefix) + 1, Len(bytes))
       IN IF Len(address) # AddressLen THEN "panic"
          ELSE IF is_zero(address) THEN "cleared"
          ELSE "delegated"
  ELSE "not_delegation"

(***************************************************************************)
(* Upstream::get_code of the two backends.  fault names what fails in the *)
(* lookup: "none", "provider" (the RPC call, or provider.latest()), or     *)
(* "account_code" (the state's account_code of the Reth backend).          *)
(***************************************************************************)
Backends == {"alloy", "reth"}
CodeFaults == {"none", "provider", "account_code"}
BytesOk(bytes) == [ok |-> TRUE, bytes |-> bytes]
BytesErr == [ok |-> FALSE, bytes |-> <<>>]

AlloyGetCode(fault, chainCode) ==
  IF fault = "none" THEN BytesOk(chainCode) ELSE BytesErr

RethGetCode(fault, chainCode) ==
  IF fault = "provider" THEN BytesErr
  ELSE IF fault = "account_code" THEN BytesOk(<<>>)
  ELSE BytesOk(chainCode)

(***************************************************************************)
(* Upstream::estimate of the two backends: gas estimation and fee          *)
(* estimation are joined, then each result is unwrapped with `?`.  fault   *)
(* names what fails: "none", "gas", "fee" or "both".  fee is the pair the  *)
(* fee estimator returns: (max_fee, max_priority_fee) from the Alloy       *)
(* provider, (base, priority) from Reth's eip1559_fees.                    *)
(***************************************************************************)
EstimateFaults == {"none", "gas", "fee", "both"}
EstimateOk(gas, maxFee, maxPrio) ==
  [ok |-> TRUE, gas |-> gas, max_fee_per_gas |-> maxFee,
   max_priority_fee_per_gas |-> maxPrio]
EstimateErr ==
  [ok |-> FALSE, gas |-> 0, max_fee_per_gas |-> 0, max_priority_fee_per_gas |-> 0]

\* mutant of AlloyEstimate: a failed fee estimation is replaced by default
\* (zero) fees instead of failing the call
AlloyEstimateFeeDefaulted(fault, gas, fee) ==
  IF fault \in {"gas", "both"} THEN EstimateErr
  ELSE IF fault = "fee" THEN EstimateOk(gas, 0, 0)
  ELSE EstimateOk(gas, fee[1], fee[2])

AlloyEstimate(fault, gas, fee) ==
  IF fault # "none" THEN EstimateErr ELSE EstimateOk(gas, fee[1], fee[2])

RethEstimate(fault, gas, fee) ==
  IF fault # "none" THEN EstimateErr ELSE EstimateOk(gas, fee[1] + fee[2], fee[2])

\* what a call keeps of its estimate: the result, and which of the two
\* joined estimations had failed
Estimated(fault, est) ==
  [fault |-> fault, ok |-> est.ok, gas |-> est.gas,
   max_fee_per_gas |-> est.max_fee_per_gas,
   max_priority_fee_per_gas |-> est.max_priority_fee_per_gas]

\* the gas cap of send_transaction
GasCap == 350000

(***************************************************************************)
(* The inputs the environment draws from: the requests callers send, the  *)
(* bytecodes the destination may hold, the estimates the backend returns. *)
(***************************************************************************)
GasEstimates == (GasCap - GasSpread)..(GasCap + GasSpread)
FeePairs == (0..MaxFee) \X (0..MaxFee)

FullDomain ==
  [requests |-> AllRequests, codes |-> Bytecodes,
   gas |-> GasEstimates, fees |-> FeePairs]

ConcDomain ==
  [requests |-> ConcRequests, codes |-> {CodeDelegatedA, CodeShort},
   gas |-> {GasCap - GasSpread, GasCap}, fees |-> {<<MaxFee, MaxFee>>}]

(***************************************************************************)
(* State.                                                                  *)
(***************************************************************************)
VARIABLES
  backend,        \* which Upstream the wallet was constructed with
  code,           \* chain state: the bytecode at DestAddress
  pool_nonce,     \* chain state: the next available nonce of the signer
  submitted,      \* the signed transactions the backend accepted, in order
  permit,         \* TraverseWalletInner.permit: NoReq (unlocked) or the holder
  invalid_calls,  \* WalletMetrics.invalid_send_transaction_calls
  valid_calls,    \* WalletMetrics.valid_send_transaction_calls
  pc,             \* where each call stands
  inbound,        \* the request each call was made with
  request,        \* each call's `request`, as the handler mutates it
  policy,         \* what validate_tx_request returned to each call
  calls,          \* the Upstream calls each call made, with their arguments
  estimated,      \* what Upstream::estimate returned to each call
  fetched,        \* what Upstream::get_code returned to each call, and the fault
  sent,           \* what Upstream::sign_and_send returned to each call
  result,         \* what each call returned
  response,       \* the RpcResult the caller of each call received
  storage,        \* chain state: the storage of the accounts
  proof_request,  \* the last eth_getProof request served
  proof_response, \* what eth_getProof returned for it
  handler,        \* the handler of the EVM built last: its spec id and registers
  loaded_precompiles, \* what its pre_execution.load_precompiles() returned
  clock,          \* the wall time, in milliseconds since the unix epoch
  block_time_data,    \* TraverseWallTimeInner.block_time_data
  listener,       \* where the task spawned by spawn() stands, and its tip
  time_call,      \* the traverse_getWallTimeData call in flight, if any
  processed,      \* the tip timestamp of the notification processed last
  time_response,  \* what the last traverse_getWallTimeData call returned
  chain_spec,     \* TraverseEvmConfig.chain_spec: the condition of every fork
  header,         \* the header the EVM environment was filled for last
  evm_env         \* the environment configured for it: spec id or panic

\* the state of the wallet and the state of the node's other extensions
walletVars ==
  <<backend, code, pool_nonce, submitted, permit, invalid_calls, valid_calls,
    pc, inbound, request, policy, calls, estimated, fetched, sent, result, response>>
timeVars ==
  <<clock, block_time_data, listener, time_call, processed, time_response>>
forkVars == <<chain_spec, header, evm_env>>
nodeVars ==
  <<storage, proof_request, proof_response, handler, loaded_precompiles,
    timeVars, forkVars>>

vars == <<walletVars, nodeVars>>

chainVars == <<backend, code, pool_nonce, submitted>>
metricVars == <<invalid_calls, valid_calls>>

\* the suspension points of a call
AwaitPoints == {"get_code", "lock", "estimate", "next_nonce", "build", "send_raw"}
\* the points between the acquisition of the permit and the return
HoldingPoints == {"estimate", "next_nonce", "build", "send_raw"}
\* the points inside Upstream::sign_and_send
SignPoints == {"next_nonce", "build", "send_raw"}

UpstreamCall(op, arg) == [op |-> op, arg |-> arg]
CallOps(r) == {calls[r][i].op : i \in 1..Len(calls[r])}

(***************************************************************************)
(* The eth_getProof override of the node (crates/node/src/rpc.rs).  The    *)
(* chain state is the storage of two accounts; the proofs of a state are   *)
(* modelled by what they prove and the state they were taken from.         *)
(***************************************************************************)
\* number of storage slots of an account, and the longest list of keys of a
\* request
MaxKeys == 1

\* traverse_common::WITHDRAWAL_CONTRACT, and the accounts of the chain
WITHDRAWAL_CONTRACT == AddressOf(22)
Accounts == {WITHDRAWAL_CONTRACT, DestAddress}
Slots == 1..MaxKeys
States == [Accounts -> [Slots -> 0..1]]

\* JsonStorageKey: a slot written as a hash or as a number; as_b256
JsonStorageKeys == [form : {"hash", "number"}, slot : Slots]
as_b256(k) == k.slot
KeyLists == UNION {[1..n -> JsonStorageKeys] : n \in 0..MaxKeys}

\* the account of the state trie at an address; Account::default()
AccountInfo(address) == [nonce |-> 1, balance |-> 1, code |-> address]
DefaultAccount == [nonce |-> 0, balance |-> 0, code |-> AddressZero]

\* the storage root of an account, the proof of one of its slots and the
\* proof of the account in the state trie
StorageRoot(state, address) == state[address]
storage_proof(state, address, slot) ==
  [key |-> slot, value |-> state[address][slot], nodes |-> <<state[address]>>]
AccountTrieProof(state, address) == <<[account |-> address, root |-> state]>>

\* AccountProof::into_eip1186_response(keys): the storage proofs are paired
\* with the keys as the caller wrote them
into_eip1186_response(account_proof, keys) ==
  [ok |-> TRUE,
   address |-> account_proof.address,
   info |-> account_proof.info,
   storage_hash |-> account_proof.storage_root,
   account_proof |-> account_proof.proof,
   storage_proof |->
     [i \in 1..Len(keys) |->
        [key |-> keys[i],
         value |-> account_proof.storage_proofs[i].value,
         proof |-> account_proof.storage_proofs[i].nodes]]]

\* an EthApiError returned to the caller
ProofErr ==
  [ok |-> FALSE, address |-> AddressZero, info |-> DefaultAccount,
   storage_hash |-> <<>>, account_proof |-> <<>>, storage_proof |-> <<>>]

\* EthState::get_proof, the default implementation: the proof of the account
\* and the proofs of the slots
DefaultGetProof(state, address, keys) ==
  into_eip1186_response(
    [address |-> address,
     info |-> AccountInfo(address),
     storage_root |-> StorageRoot(state, address),
     proof |-> AccountTrieProof(state, address),
     storage_proofs |->
       [i \in 1..Len(keys) |-> storage_proof(state, address, as_b256(keys[i]))]],
    keys)

\* the branch of the override: the storage multiproof of the withdrawal
\* contract, and AccountProof { address, storage_root, storage_proofs,
\* ..Default::default() }
StorageOnlyProof(state, address, keys) ==
  into_eip1186_response(
    [address |-> address,
     info |-> DefaultAccount,
     storage_root |-> StorageRoot(state, WITHDRAWAL_CONTRACT),
     proof |-> <<>>,
     storage_proofs |->
       [i \in 1..Len(keys) |->
          storage_proof(state, WITHDRAWAL_CONTRACT, as_b256(keys[i]))]],
    keys)

\* mutant of get_proof: every address is answered with the storage proofs only
get_proof_storage_only(state, address, keys) ==
  StorageOnlyProof(state, address, keys)

\* EthApiExt::get_proof
get_proof(state, address, keys) ==
  IF address = WITHDRAWAL_CONTRACT
  THEN StorageOnlyProof(state, address, keys)
  ELSE DefaultGetProof(state, address, keys)

(***************************************************************************)
(* The EVM configuration of the node (crates/node/src/evm.rs): the         *)
(* precompiles TraverseEvmConfig::set_precompiles installs.  A precompile  *)
(* set is a function from addresses (u64_to_address) to precompiles.       *)
(***************************************************************************)
\* reth_revm::primitives::SpecId: the spec ids a handler may be built for
SpecIds ==
  {"FRONTIER", "FRONTIER_THAWING", "HOMESTEAD", "DAO_FORK", "TANGERINE",
   "SPURIOUS_DRAGON", "BYZANTIUM", "CONSTANTINOPLE", "PETERSBURG", "ISTANBUL",
   "MUIR_GLACIER", "BERLIN", "LONDON", "ARROW_GLACIER", "GRAY_GLACIER", "MERGE",
   "BEDROCK", "REGOLITH", "SHANGHAI", "CANYON", "CANCUN", "ECOTONE", "FJORD",
   "GRANITE", "HOLOCENE", "PRAGUE", "OSAKA", "LATEST"}

\* PrecompileSpecId::from_spec_id
PrecompileSpecId(spec_id) ==
  CASE spec_id \in {"FRONTIER", "FRONTIER_THAWING", "HOMESTEAD", "DAO_FORK",
                    "TANGERINE", "SPURIOUS_DRAGON"} -> "HOMESTEAD"
    [] spec_id \in {"BYZANTIUM", "CONSTANTINOPLE", "PETERSBURG"} -> "BYZANTIUM"
    [] spec_id \in {"ISTANBUL", "MUIR_GLACIER"} -> "ISTANBUL"
    [] spec_id \in {"BERLIN", "LONDON", "ARROW_GLACIER", "GRAY_GLACIER", "MERGE",
                    "SHANGHAI", "BEDROCK", "REGOLITH", "CANYON"} -> "BERLIN"
    [] spec_id \in {"CANCUN", "ECOTONE", "FJORD", "GRANITE", "HOLOCENE"} -> "CANCUN"
    [] spec_id \in {"PRAGUE", "OSAKA"} -> "PRAGUE"
    [] spec_id = "LATEST" -> "LATEST"

\* the name of the precompile revm has at an address
PrecompileAt(a) ==
  CASE a = 1 -> "ecrecover" [] a = 2 -> "sha256" [] a = 3 -> "ripemd160"
    [] a = 4 -> "identity" [] a = 5 -> "modexp" [] a \in 6..8 -> "bn128"
    [] a = 9 -> "blake2f" [] a = 10 -> "kzg_point_evaluation"
    [] a \in 11..19 -> "bls12_381"

\* ContextPrecompiles::new(PrecompileSpecId): the default precompiles
DefaultPrecompiles(pspec) ==
  LET last == CASE pspec = "HOMESTEAD" -> 4
                [] pspec = "BYZANTIUM" -> 8
                [] pspec \in {"ISTANBUL", "BERLIN"} -> 9
                [] pspec = "CANCUN" -> 10
                [] pspec \in {"PRAGUE", "LATEST"} -> 19
  IN [a \in 1..last |-> PrecompileAt(a)]

\* P256VERIFY_ADDRESS, and the address of revm's own P256VERIFY
P256VERIFY_ADDRESS == 20
REVM_P256VERIFY_ADDRESS == 256

\* PrecompileWithAddress
PrecompileWithAddress(a, precompile) == [address |-> a, precompile |-> precompile]
P256VERIFY == PrecompileWithAddress(P256VERIFY_ADDRESS, "p256_verify")
REVM_P256VERIFY == PrecompileWithAddress(REVM_P256VERIFY_ADDRESS, "p256_verify")

\* mutant of precompiles: revm's P256VERIFY is left out
precompiles_without_revm == <<P256VERIFY>>

\* TraverseEvmConfig::precompiles
precompiles == <<P256VERIFY, REVM_P256VERIFY>>

\* ContextPrecompiles::extend: a precompile replaces the one at its address
extend(loaded, added) ==
  LET addresses == {added[i].address : i \in 1..Len(added)}
      last(a) == CHOOSE i \in 1..Len(added) :
                   /\ added[i].address = a
                   /\ \A j \in 1..Len(added) : added[j].address = a => j <= i
  IN [a \in DOMAIN loaded \cup addresses |->
        IF a \in addresses THEN added[last(a)].precompile ELSE loaded[a]]

\* the closure set_precompiles installs as pre_execution.load_precompiles
load_precompiles(spec_id) ==
  extend(DefaultPrecompiles(PrecompileSpecId(spec_id)), precompiles)

\* the handler EvmBuilder builds: its cfg.spec_id and the handler registers
\* appended after .optimism()
Handler(spec_id, registers) == [spec_id |-> spec_id, registers |-> registers]

\* the node's extensions before any request
NodeInit ==
  /\ storage \in {st \in States : \A a \in Accounts, k \in Slots : st[a][k] = 0}
  /\ proof_request = None
  /\ proof_response = None
  /\ handler = None
  /\ loaded_precompiles = None
  /\ clock = 0
  /\ block_time_data = None
  /\ listener = [at |-> "next"]
  /\ time_call = None
  /\ processed = None
  /\ time_response = None
  /\ chain_spec = None
  /\ header = None
  /\ evm_env = None

InitWith(D) ==
  /\ backend \in Backends
  /\ code \in D.codes
  /\ pool_nonce = 0
  /\ submitted = <<>>
  /\ permit = NoReq
  /\ invalid_calls = 0
  /\ valid_calls = 0
  /\ pc = [r \in Reqs |-> "idle"]
  /\ inbound = [r \in Reqs |-> DefaultRequest]
  /\ request = [r \in Reqs |-> DefaultRequest]
  /\ policy = [r \in Reqs |-> "None"]
  /\ calls = [r \in Reqs |-> <<>>]
  /\ estimated = [r \in Reqs |-> None]
  /\ fetched = [r \in Reqs |-> None]
  /\ sent = [r \in Reqs |-> None]
  /\ result = [r \in Reqs |-> NoResult]
  /\ response = [r \in Reqs |-> NoResponse]
  /\ NodeInit

(***************************************************************************)
(* Chain state changes under the wallet: the destination's code is set by *)
(* transactions of other parties.                                          *)
(***************************************************************************)
SetCode(D) ==
  /\ \E c \in D.codes : c # code /\ code' = c
  /\ UNCHANGED <<backend, nodeVars, pool_nonce, submitted, permit, invalid_calls, valid_calls,
                 pc, inbound, request, policy, calls, estimated, sent, fetched, result, response>>

\* mutant of IncrementValid: the increment is missing
IncrementValidMissing == valid_calls' = valid_calls

\* metrics.valid_send_transaction_calls.increment(1) and
\* metrics.invalid_send_transaction_calls.increment(1)
IncrementValid == valid_calls' = valid_calls + 1
IncrementInvalid == invalid_calls' = invalid_calls + 1

(***************************************************************************)
(* impl From<TraverseWalletError> for ErrorObject: every error is turned   *)
(* into an error object with the invalid-params code and the Display text *)
(* of the error (#[error("...")]), a text with the fields it formats.      *)
(***************************************************************************)
\* jsonrpsee::types::error::INVALID_PARAMS_CODE
INVALID_PARAMS_CODE == -32602

\* Display of the eyre::Report an InternalError wraps: the model has one
\* text for the failures of the backend
ReportText == "backend failure"

\* TraverseWalletError::to_string
to_string(error) ==
  CASE error.kind = "ValueNotZero" -> <<"tx value not zero">>
    [] error.kind = "FromSet" -> <<"tx from field is set">>
    [] error.kind = "NonceSet" -> <<"tx nonce is set">>
    [] error.kind = "IllegalDestination" ->
         <<"the destination of the transaction is not a delegated account">>
    [] error.kind = "InvalidTransactionRequest" -> <<"invalid tx request">>
    [] error.kind = "GasEstimateTooHigh" ->
         <<"request would use too much gas: estimated ", error.estimate>>
    [] error.kind = "InternalError" -> <<ReportText>>

\* mutant of ErrorObjectFrom: an InternalError is reported with the
\* internal-error code, the code next to invalid-params
ErrorObjectFromInternalCode(error) ==
  [code |-> IF error.kind = "InternalError" THEN INVALID_PARAMS_CODE - 1
            ELSE INVALID_PARAMS_CODE,
   message |-> to_string(error)]

ErrorObjectFrom(error) ==
  [code |-> INVALID_PARAMS_CODE, message |-> to_string(error)]

\* RpcResult<TxHash>: Ok(hash), or Err(error.into())
IntoRpcResult(res) ==
  IF res.ok
  THEN [ok |-> TRUE, hash |-> res.hash, code |-> 0, message |-> <<>>]
  ELSE [ok |-> FALSE, hash |-> 0, code |-> ErrorObjectFrom(res).code,
        message |-> ErrorObjectFrom(res).message]

\* mutant of Return: a call whose estimate failed does not return but asks
\* for the permit and the estimate again
ReturnOrRetry(r, res) ==
  IF pc[r] = "estimate" /\ res.kind = "InternalError"
  THEN /\ pc' = [pc EXCEPT ![r] = "lock"]
       /\ UNCHANGED <<result, response>>
  ELSE /\ pc' = [pc EXCEPT ![r] = "done"]
       /\ result' = [result EXCEPT ![r] = res]
       /\ response' = [response EXCEPT ![r] = IntoRpcResult(res)]

\* a call returns: its result is set, converted into the RpcResult the
\* caller receives, and its position is "done"
Return(r, res) ==
  /\ pc' = [pc EXCEPT ![r] = "done"]
  /\ result' = [result EXCEPT ![r] = res]
  /\ response' = [response EXCEPT ![r] = IntoRpcResult(res)]

\* mutant of Propagate: the error of sign_and_send is replaced by a default
\* hash
PropagateOrDefault(res) == Ok(res.hash)

\* Ok(sign_and_send(request).await.inspect_err(..)?): the hash, or the error
Propagate(res) == IF res.ok THEN Ok(res.hash) ELSE res

\* Upstream::sign_and_send returns to call r, and call r returns
SignAndSendReturn(r, res) ==
  /\ sent' = [sent EXCEPT ![r] = Some(res)]
  /\ Return(r, Propagate(res))

\* mutants of DropPermit: an explicit unlock that is missing on the gas cap
\* rejection, or that a dropped future never reaches
DropPermitNotOnGasCap(r, exit) ==
  IF exit = "gas_cap" THEN UNCHANGED permit ELSE permit' = NoReq

DropPermitNotOnCancel(r, exit) ==
  IF exit = "cancel" THEN UNCHANGED permit ELSE permit' = NoReq

\* the MutexGuard `_permit` of call r is dropped at exit point `exit`
DropPermit(r, exit) == permit' = NoReq

(***************************************************************************)
(* send_transaction, from the call to its first suspension point:         *)
(* validate_tx_request, the destination match, and either the call of     *)
(* get_code or the request for the permit.                                 *)
(***************************************************************************)
SendTransaction(r, D) ==
  /\ pc[r] = "idle"
  /\ \E q \in D.requests :
       LET v == validate_tx_request(q)
           arm == DestinationArm(q)
       IN /\ inbound' = [inbound EXCEPT ![r] = q]
          /\ request' = [request EXCEPT ![r] = q]
          /\ policy' = [policy EXCEPT ![r] = v]
          /\ IF v # "Ok"
             THEN /\ IncrementInvalid
                  /\ Return(r, Err(v))
                  /\ UNCHANGED calls
             ELSE IF arm = "lookup"
             THEN /\ calls' = [calls EXCEPT ![r] =
                                 Append(@, UpstreamCall("get_code", q.to.val.addr))]
                  /\ pc' = [pc EXCEPT ![r] = "get_code"]
                  /\ UNCHANGED <<invalid_calls, result, response>>
             ELSE IF arm = "pass"
             THEN /\ pc' = [pc EXCEPT ![r] = "lock"]
                  /\ UNCHANGED <<invalid_calls, result, response, calls>>
             ELSE /\ IncrementInvalid
                  /\ Return(r, Err("IllegalDestination"))
                  /\ UNCHANGED calls
  /\ UNCHANGED <<chainVars, nodeVars, permit, valid_calls, estimated, sent, fetched>>

\* Upstream::get_code / Upstream::estimate as the trait dispatches them
get_code(fault, chainCode) ==
  IF backend = "alloy" THEN AlloyGetCode(fault, chainCode)
  ELSE RethGetCode(fault, chainCode)

estimate(fault, gas, fee) ==
  IF backend = "alloy" THEN AlloyEstimate(fault, gas, fee)
  ELSE RethEstimate(fault, gas, fee)

\* the bytecode the chain holds at an address
account_code(addr) == IF addr = DestAddress THEN code ELSE <<>>

(***************************************************************************)
(* get_code returns: an error is propagated by `?`; otherwise the code    *)
(* match rejects the request, panics, or lets it go on to the permit.      *)
(***************************************************************************)
\* mutant of GetCodeReturn: the destination is checked under the permit, so
\* the lookup does not complete while another call holds it
GetCodeReturnUnderPermit(r) ==
  /\ pc[r] = "get_code"
  /\ permit = NoReq
  /\ \E fault \in CodeFaults :
       LET got == get_code(fault, account_code(request[r].to.val.addr))
           arm == CodeArm(got.bytes)
       IN /\ fetched' = [fetched EXCEPT ![r] = Some([fault |-> fault, got |-> got])]
          /\ IF ~got.ok
             THEN /\ Return(r, Err("InternalError"))
                  /\ UNCHANGED invalid_calls
             ELSE IF arm = "panic"
             THEN /\ pc' = [pc EXCEPT ![r] = "panicked"]
                  /\ UNCHANGED <<invalid_calls, result, response>>
             ELSE IF arm = "delegated"
             THEN /\ pc' = [pc EXCEPT ![r] = "lock"]
                  /\ UNCHANGED <<invalid_calls, result, response>>
             ELSE /\ IncrementInvalid
                  /\ Return(r, Err("IllegalDestination"))
  /\ UNCHANGED <<chainVars, nodeVars, permit, valid_calls, inbound, request, policy, calls,
                 estimated, sent>>

GetCodeReturn(r) ==
  /\ pc[r] = "get_code"
  /\ \E fault \in CodeFaults :
       LET got == get_code(fault, account_code(request[r].to.val.addr))
           arm == CodeArm(got.bytes)
       IN /\ fetched' = [fetched EXCEPT ![r] = Some([fault |-> fault, got |-> got])]
          /\ IF ~got.ok
             THEN /\ Return(r, Err("InternalError"))
                  /\ UNCHANGED invalid_calls
             ELSE IF arm = "panic"
             THEN /\ pc' = [pc EXCEPT ![r] = "panicked"]
                  /\ UNCHANGED <<invalid_calls, result, response>>
             ELSE IF arm = "delegated"
             THEN /\ pc' = [pc EXCEPT ![r] = "lock"]
                  /\ UNCHANGED <<invalid_calls, result, response>>
             ELSE /\ IncrementInvalid
                  /\ Return(r, Err("IllegalDestination"))
  /\ UNCHANGED <<chainVars, nodeVars, permit, valid_calls, inbound, request, policy, calls,
                 estimated, sent>>

(***************************************************************************)
(* self.inner.permit.lock().await completes: the call holds the permit,   *)
(* sets chain_id and from, and calls estimate.                             *)
(***************************************************************************)
\* mutant of PermitFree: the lock is taken without waiting for it
PermitFreeUnchecked == TRUE

\* Mutex::lock completes only while the mutex is unlocked
PermitFree == permit = NoReq

\* mutant of WithIdentity: a chain id the caller supplied is kept
WithIdentityKeepChainId(q) ==
  [q EXCEPT !.chain_id = IF is_some(q.chain_id) THEN q.chain_id
                         ELSE Some(ServiceChainId),
            !.from = Some(SignerAddress)]

\* request.chain_id = Some(self.chain_id());
\* request.from = Some(self.inner.upstream.default_signer_address())
WithIdentity(q) ==
  [q EXCEPT !.chain_id = Some(ServiceChainId), !.from = Some(SignerAddress)]

\* mutant of Lock: estimate is called without the permit being taken
LockNotAcquired(r) ==
  /\ pc[r] = "lock"
  /\ LET q == WithIdentity(request[r])
     IN /\ request' = [request EXCEPT ![r] = q]
        /\ calls' = [calls EXCEPT ![r] = Append(@, UpstreamCall("estimate", q))]
  /\ pc' = [pc EXCEPT ![r] = "estimate"]
  /\ UNCHANGED <<chainVars, nodeVars, metricVars, permit, inbound, policy, estimated, sent,
                 fetched, result, response>>

Lock(r) ==
  /\ pc[r] = "lock"
  /\ PermitFree
  /\ permit' = r
  /\ LET q == WithIdentity(request[r])
     IN /\ request' = [request EXCEPT ![r] = q]
        /\ calls' = [calls EXCEPT ![r] = Append(@, UpstreamCall("estimate", q))]
  /\ pc' = [pc EXCEPT ![r] = "estimate"]
  /\ UNCHANGED <<chainVars, nodeVars, metricVars, inbound, policy, estimated, sent, fetched, result, response>>

(***************************************************************************)
(* estimate returns: an error or an estimate at or over the gas cap       *)
(* rejects the request; otherwise gas and fees are populated, the valid   *)
(* counter is incremented and sign_and_send is called.                     *)
(***************************************************************************)
\* mutant of OverGasCap: the cap itself is let through
OverGasCapStrict(gas) == gas > GasCap

OverGasCap(gas) == gas >= GasCap

\* mutant of Populate: a gas price the caller supplied is kept
PopulateKeepGasPrice(q, est) ==
  [q EXCEPT !.gas = Some(est.gas),
            !.max_fee_per_gas = Some(est.max_fee_per_gas),
            !.max_priority_fee_per_gas = Some(est.max_priority_fee_per_gas)]

\* mutant of Populate: the value is overwritten with zero as well
PopulateZeroValue(q, est) ==
  [q EXCEPT !.gas = Some(est.gas),
            !.max_fee_per_gas = Some(est.max_fee_per_gas),
            !.max_priority_fee_per_gas = Some(est.max_priority_fee_per_gas),
            !.gas_price = None,
            !.value = Some(0)]

\* request.gas, request.max_fee_per_gas, request.max_priority_fee_per_gas are
\* set from the estimate and request.gas_price is cleared
Populate(q, est) ==
  [q EXCEPT !.gas = Some(est.gas),
            !.max_fee_per_gas = Some(est.max_fee_per_gas),
            !.max_priority_fee_per_gas = Some(est.max_priority_fee_per_gas),
            !.gas_price = None]

EstimateReturn(r, D) ==
  /\ pc[r] = "estimate"
  /\ \E fault \in EstimateFaults, gas \in D.gas, fee \in D.fees :
       LET est == estimate(fault, gas, fee)
           q == Populate(request[r], est)
       IN /\ estimated' = [estimated EXCEPT ![r] = Some(Estimated(fault, est))]
          /\ IF ~est.ok
             THEN /\ IncrementInvalid
                  /\ DropPermit(r, "estimate_error")
                  /\ Return(r, Err("InternalError"))
                  /\ UNCHANGED <<valid_calls, request, calls>>
             ELSE IF OverGasCap(est.gas)
             THEN /\ IncrementInvalid
                  /\ DropPermit(r, "gas_cap")
                  /\ Return(r, GasEstimateTooHigh(est.gas))
                  /\ UNCHANGED <<valid_calls, request, calls>>
             ELSE /\ request' = [request EXCEPT ![r] = q]
                  /\ IncrementValid
                  /\ calls' = [calls EXCEPT ![r] =
                                 Append(@, UpstreamCall("sign_and_send", q))]
                  /\ pc' = [pc EXCEPT ![r] = "next_nonce"]
                  /\ UNCHANGED <<invalid_calls, permit, result, response>>
  /\ UNCHANGED <<chainVars, nodeVars, inbound, policy, fetched, sent>>

(***************************************************************************)
(* sign_and_send: the nonce lookup returns (RethUpstream:                 *)
(* next_available_nonce; AlloyUpstream: the provider's nonce fill inside  *)
(* send_transaction), and the transaction is handed to build and sign.    *)
(***************************************************************************)
\* mutant of next_available_nonce: the nonce of the latest state, which
\* does not count the transactions pending in the pool
next_available_nonce_latest == pool_nonce - Len(submitted)

\* LoadState::next_available_nonce for the signer
next_available_nonce == pool_nonce

\* mutant of NextNonce: a failed nonce lookup is replaced by the default
\* nonce instead of failing sign_and_send
NextNonceOrDefault(r) ==
  /\ pc[r] = "next_nonce"
  /\ \E ok \in BOOLEAN :
       /\ request' = [request EXCEPT ![r].nonce =
                        IF ok THEN Some(next_available_nonce) ELSE Some(0)]
       /\ pc' = [pc EXCEPT ![r] = "build"]
       /\ UNCHANGED <<permit, sent, result, response>>
  /\ UNCHANGED <<chainVars, nodeVars, metricVars, inbound, policy, calls, estimated, fetched>>

NextNonce(r) ==
  /\ pc[r] = "next_nonce"
  /\ \E ok \in BOOLEAN :
       IF ok
       THEN /\ request' = [request EXCEPT ![r].nonce = Some(next_available_nonce)]
            /\ pc' = [pc EXCEPT ![r] = "build"]
            /\ UNCHANGED <<permit, sent, result, response>>
       ELSE /\ DropPermit(r, "sign_error")
            /\ SignAndSendReturn(r, Err("InternalError"))
            /\ UNCHANGED request
  /\ UNCHANGED <<chainVars, nodeVars, metricVars, inbound, policy, calls, estimated, fetched>>

\* sign_and_send: build and sign returns, and the envelope is submitted
Build(r) ==
  /\ pc[r] = "build"
  /\ \E ok \in BOOLEAN :
       IF ok
       THEN /\ pc' = [pc EXCEPT ![r] = "send_raw"]
            /\ UNCHANGED <<permit, sent, result, response>>
       ELSE /\ DropPermit(r, "sign_error")
            /\ SignAndSendReturn(r, Err("InternalError"))
  /\ UNCHANGED <<chainVars, nodeVars, metricVars, inbound, request, policy, calls, estimated,
                 fetched>>

\* the signed transaction of call r, and its hash
Envelope(r) == [tx |-> request[r], signer |-> SignerAddress]
TxHashOf(envelope) == envelope.tx.nonce.val + 1

\* the pool takes a transaction: the signer's next available nonce moves
\* past it when it is the next one
PoolAdd(envelope) ==
  /\ submitted' = Append(submitted, envelope)
  /\ pool_nonce' = IF envelope.tx.nonce.val = pool_nonce
                   THEN pool_nonce + 1 ELSE pool_nonce

(***************************************************************************)
(* sign_and_send: the submission returns, the permit is dropped and the   *)
(* hash or the error is returned to the caller.                            *)
(***************************************************************************)
SendRaw(r) ==
  /\ pc[r] = "send_raw"
  /\ \E accepted \in BOOLEAN :
       IF accepted
       THEN /\ PoolAdd(Envelope(r))
            /\ SignAndSendReturn(r, Ok(TxHashOf(Envelope(r))))
       ELSE /\ SignAndSendReturn(r, Err("InternalError"))
            /\ UNCHANGED <<pool_nonce, submitted>>
  /\ DropPermit(r, "sign_return")
  /\ UNCHANGED <<backend, nodeVars, code, metricVars, inbound, request, policy, calls, estimated,
                 fetched>>

(***************************************************************************)
(* The caller disconnects and the future of send_transaction is dropped   *)
(* at a suspension point: its locals, the MutexGuard among them, are      *)
(* dropped.  A submission already handed to the backend may have landed.  *)
(***************************************************************************)
Cancel(r) ==
  /\ pc[r] \in AwaitPoints
  /\ pc' = [pc EXCEPT ![r] = "cancelled"]
  /\ IF pc[r] \in HoldingPoints THEN DropPermit(r, "cancel") ELSE UNCHANGED permit
  /\ \/ UNCHANGED <<pool_nonce, submitted>>
     \/ pc[r] = "send_raw" /\ PoolAdd(Envelope(r))
  /\ UNCHANGED <<backend, nodeVars, code, metricVars, inbound, request, policy, calls, estimated, sent,
                 fetched, result, response>>

(***************************************************************************)
(* Specifications.  Spec: NumReqs concurrent calls.  SpecOne: one call    *)
(* with every request, bytecode and estimate of the full domain.           *)
(***************************************************************************)
Step(r, D) ==
  \/ SendTransaction(r, D)
  \/ GetCodeReturn(r)
  \/ Lock(r)
  \/ EstimateReturn(r, D)
  \/ NextNonce(r)
  \/ Build(r)
  \/ SendRaw(r)
  \/ Cancel(r)

Init == InitWith(ConcDomain)
Next == (\E r \in Reqs : Step(r, ConcDomain)) \/ SetCode(ConcDomain)
Spec == Init /\ [][Next]_vars

InitOne == InitWith(FullDomain)
NextOne == Step(1, FullDomain) \/ SetCode(FullDomain)
SpecOne == InitOne /\ [][NextOne]_vars

(***************************************************************************)
(* FairSpec: Spec where every Upstream call eventually returns (weak      *)
(* fairness of the steps that complete an await) and the permit is        *)
(* granted fairly (strong fairness of its acquisition).                    *)
(***************************************************************************)
Fairness ==
  \A r \in Reqs :
    /\ WF_vars(GetCodeReturn(r))
    /\ SF_vars(Lock(r))
    /\ WF_vars(EstimateReturn(r, ConcDomain))
    /\ WF_vars(NextNonce(r))
    /\ WF_vars(Build(r))
    /\ WF_vars(SendRaw(r))

FairSpec == Spec /\ Fairness

(***************************************************************************)
(* The node's other extensions: eth_getProof requests served against the  *)
(* chain state while blocks change it, and EVMs built for a spec id whose  *)
(* precompiles are loaded before execution.                                *)
(***************************************************************************)
\* a block changes a storage slot of an account
SetStorage ==
  /\ \E a \in Accounts, k \in Slots, v \in 0..1 :
       /\ storage[a][k] # v
       /\ storage' = [storage EXCEPT ![a][k] = v]
  /\ UNCHANGED <<walletVars, timeVars, forkVars, proof_request, proof_response, handler,
                 loaded_precompiles>>

\* what may fail while a proof is served: nothing, or the lookup of the state
\* (state_at_block_id)
ProofFaults == {"none", "state"}

\* eth_getProof is served against the state of the chain
GetProof ==
  /\ \E address \in Accounts, keys \in KeyLists, fault \in ProofFaults :
       /\ proof_request' =
            Some([address |-> address, keys |-> keys, state |-> storage])
       /\ proof_response' =
            Some(IF fault = "none" THEN get_proof(storage, address, keys)
                 ELSE ProofErr)
  /\ UNCHANGED <<walletVars, timeVars, forkVars, storage, handler, loaded_precompiles>>

\* ConfigureEvm::evm: an EVM is built for a spec id and set_precompiles is
\* registered on its handler
evm ==
  /\ \E spec_id \in SpecIds :
       handler' = Some(Handler(spec_id, <<"set_precompiles">>))
  /\ loaded_precompiles' = None
  /\ UNCHANGED <<walletVars, timeVars, forkVars, storage, proof_request, proof_response>>

\* ConfigureEvm::evm_with_inspector: the same, and the inspector's register
\* is appended after set_precompiles
evm_with_inspector ==
  /\ \E spec_id \in SpecIds :
       handler' =
         Some(Handler(spec_id, <<"set_precompiles", "inspector_handle_register">>))
  /\ loaded_precompiles' = None
  /\ UNCHANGED <<walletVars, timeVars, forkVars, storage, proof_request, proof_response>>

\* handler.pre_execution().load_precompiles(): the closure of set_precompiles
\* runs with the spec id the handler was built for
LoadPrecompiles ==
  /\ handler # None
  /\ "set_precompiles" \in {handler.val.registers[i] : i \in 1..Len(handler.val.registers)}
  /\ loaded_precompiles' = Some(load_precompiles(handler.val.spec_id))
  /\ UNCHANGED <<walletVars, timeVars, forkVars, storage, proof_request, proof_response, handler>>

\* the node serves no wallet request in the specifications of its other
\* extensions
InitNode == Init /\ backend = "reth" /\ code = CodeDelegatedA

\* SpecProof: eth_getProof requests while blocks change the storage
NextProof == SetStorage \/ GetProof
SpecProof == InitNode /\ [][NextProof]_vars

\* SpecEvm: EVMs are built and their precompiles loaded
NextEvm == evm \/ evm_with_inspector \/ LoadPrecompiles
SpecEvm == InitNode /\ [][NextEvm]_vars

(***************************************************************************)
(* The walltime endpoint (crates/walltime).  The task spawned by spawn()  *)
(* takes the canonical-state notifications one by one and writes the time *)
(* data of their tip; traverse_getWallTimeData reads it.                   *)
(***************************************************************************)
MaxTime == 1
Times == 0..MaxTime

INTERNAL_ERROR_CODE == -32603

\* unix_epoch_ms(): the wall clock now
unix_epoch_ms == clock

BlockTimeData(wall, timestamp) ==
  [wall_time_ms |-> wall, block_timestamp |-> timestamp]

\* mutant of WallTimeData: the wall time of the last block is reported as
\* its timestamp
WallTimeDataOfWallTime(now, current) ==
  [current_wall_time_ms |-> now,
   last_block_wall_time_ms |-> current.wall_time_ms,
   last_block_timestamp |-> current.wall_time_ms]

WallTimeData(now, current) ==
  [current_wall_time_ms |-> now,
   last_block_wall_time_ms |-> current.wall_time_ms,
   last_block_timestamp |-> current.block_timestamp]

\* current_block_time(): the tracked data, copied under the read lock
current_block_time == block_time_data

\* get_timedata after current_block_time() returned `current`
get_timedata(current, now) ==
  IF current = None
  THEN [ok |-> FALSE, code |-> INTERNAL_ERROR_CODE,
        message |-> "node is not synced", data |-> None]
  ELSE [ok |-> TRUE, code |-> 0, message |-> "",
        data |-> Some(WallTimeData(now, current.val))]

\* the wall clock advances
Tick ==
  /\ clock < MaxTime
  /\ clock' = clock + 1
  /\ UNCHANGED <<block_time_data, listener, time_call, processed, time_response>>
  /\ UNCHANGED <<walletVars, forkVars, storage, proof_request, proof_response,
                 handler, loaded_precompiles>>

\* st.next() yields a notification whose tip has the given timestamp: the
\* listener builds the tip's BlockTimeData and waits for the write lock
Notification(timestamp) ==
  /\ listener.at = "next"
  /\ listener' = [at |-> "write",
                  tip |-> BlockTimeData(unix_epoch_ms, timestamp),
                  notification |-> timestamp]
  /\ UNCHANGED <<clock, block_time_data, time_call, processed, time_response>>
  /\ UNCHANGED <<walletVars, forkVars, storage, proof_request, proof_response,
                 handler, loaded_precompiles>>

\* the listener holds the write lock and stores the tip: the notification
\* is processed, and the loop goes back to st.next()
Write ==
  /\ listener.at = "write"
  /\ block_time_data' = Some(listener.tip)
  /\ processed' = Some(listener.notification)
  /\ listener' = [at |-> "next"]
  /\ UNCHANGED <<clock, time_call, time_response>>
  /\ UNCHANGED <<walletVars, forkVars, storage, proof_request, proof_response,
                 handler, loaded_precompiles>>

\* st.next() yields None: the loop and the task end
StreamEnd ==
  /\ listener.at = "next"
  /\ listener' = [at |-> "ended"]
  /\ UNCHANGED <<clock, block_time_data, time_call, processed, time_response>>
  /\ UNCHANGED <<walletVars, forkVars, storage, proof_request, proof_response,
                 handler, loaded_precompiles>>

\* traverse_getWallTimeData is called and current_block_time() returns;
\* at_read records which notification was the last one processed then
GetTimedata ==
  /\ time_call = None
  /\ time_call' = Some([current |-> current_block_time, at_read |-> processed])
  /\ UNCHANGED <<clock, block_time_data, listener, processed, time_response>>
  /\ UNCHANGED <<walletVars, forkVars, storage, proof_request, proof_response,
                 handler, loaded_precompiles>>

\* the call returns the error or the WallTimeData built now
GetTimedataReturn ==
  /\ time_call # None
  /\ time_response' = Some([result |-> get_timedata(time_call.val.current,
                                                     unix_epoch_ms),
                            at_read |-> time_call.val.at_read])
  /\ time_call' = None
  /\ UNCHANGED <<clock, block_time_data, listener, processed>>
  /\ UNCHANGED <<walletVars, forkVars, storage, proof_request, proof_response,
                 handler, loaded_precompiles>>

NextWallTime ==
  \/ Tick
  \/ \E timestamp \in Times : Notification(timestamp)
  \/ Write
  \/ StreamEnd
  \/ GetTimedata
  \/ GetTimedataReturn
SpecWallTime == InitNode /\ [][NextWallTime]_vars

(***************************************************************************)
(* The spec id of a block (crates/node/src/evm.rs).  The chain spec gives *)
(* every hardfork its activation condition; revm_spec picks the revm spec *)
(* id for a header, and both environment builders call it.                 *)
(***************************************************************************)
MaxForks == 2
MaxHeader == 1

EthereumHardforks ==
  {"Frontier", "Homestead", "Tangerine", "SpuriousDragon", "Byzantium",
   "Constantinople", "Petersburg", "Istanbul", "Berlin", "London", "Paris",
   "Shanghai", "Cancun", "Prague"}
OpHardforks ==
  {"Bedrock", "Regolith", "Canyon", "Ecotone", "Fjord", "Granite", "Holocene"}
Hardforks == EthereumHardforks \cup OpHardforks

\* ForkCondition: never, from a block number on, or from a timestamp on
Never == [kind |-> "Never", at |-> 0]
Block(n) == [kind |-> "Block", at |-> n]
Timestamp(t) == [kind |-> "Timestamp", at |-> t]
ForkConditions == {Block(1), Timestamp(1)}

\* ForkCondition::active_at_timestamp_or_number
active_at_timestamp_or_number(condition, timestamp, number) ==
  \/ condition.kind = "Timestamp" /\ timestamp >= condition.at
  \/ condition.kind = "Block" /\ number >= condition.at

\* the sets of at most k scheduled hardforks
RECURSIVE ForkSets(_)
ForkSets(k) ==
  IF k = 0 THEN {{}}
  ELSE LET smaller == ForkSets(k - 1)
       IN smaller \cup {S \cup {f} : S \in smaller, f \in Hardforks}

\* the chain specs: fork(f) is Never for a hardfork that is not scheduled
ChainSpecs ==
  UNION {{[f \in Hardforks |-> IF f \in S THEN c[f] ELSE Never] :
            c \in [S -> ForkConditions]} : S \in ForkSets(MaxForks)}

Headers == [timestamp : 0..MaxHeader, number : 0..MaxHeader]

\* the panic of revm_spec, in place of a spec id
Panic == "panic: invalid hardfork chainspec"

\* mutant of revm_spec: the chain of tests without its first test, so that
\* Prague is looked at after the Optimism hardforks
revm_spec_prague_after_op(spec, hdr) ==
  LET timestamp == hdr.timestamp
      number == hdr.number
      active(f) == active_at_timestamp_or_number(spec[f], timestamp, number)
  IN IF active("Granite") THEN "GRANITE"
     ELSE IF active("Fjord") THEN "FJORD"
     ELSE IF active("Ecotone") THEN "ECOTONE"
     ELSE IF active("Canyon") THEN "CANYON"
     ELSE IF active("Regolith") THEN "REGOLITH"
     ELSE IF active("Bedrock") THEN "BEDROCK"
     ELSE IF active("Prague") THEN "PRAGUE"
     ELSE IF active("Cancun") THEN "CANCUN"
     ELSE IF active("Shanghai") THEN "SHANGHAI"
     ELSE IF active("Paris") THEN "MERGE"
     ELSE IF active("London") THEN "LONDON"
     ELSE IF active("Berlin") THEN "BERLIN"
     ELSE IF active("Istanbul") THEN "ISTANBUL"
     ELSE IF active("Petersburg") THEN "PETERSBURG"
     ELSE IF active("Byzantium") THEN "BYZANTIUM"
     ELSE IF active("SpuriousDragon") THEN "SPURIOUS_DRAGON"
     ELSE IF active("Tangerine") THEN "TANGERINE"
     ELSE IF active("Homestead") THEN "HOMESTEAD"
     ELSE IF active("Frontier") THEN "FRONTIER"
     ELSE Panic

\* revm_spec: the chain of tests as written, its second test of Prague
\* included
revm_spec(spec, hdr) ==
  LET timestamp == hdr.timestamp
      number == hdr.number
      active(f) == active_at_timestamp_or_number(spec[f], timestamp, number)
  IN IF active("Prague") THEN "OSAKA"
     ELSE IF active("Granite") THEN "GRANITE"
     ELSE IF active("Fjord") THEN "FJORD"
     ELSE IF active("Ecotone") THEN "ECOTONE"
     ELSE IF active("Canyon") THEN "CANYON"
     ELSE IF active("Regolith") THEN "REGOLITH"
     ELSE IF active("Bedrock") THEN "BEDROCK"
     ELSE IF active("Prague") THEN "PRAGUE"
     ELSE IF active("Cancun") THEN "CANCUN"
     ELSE IF active("Shanghai") THEN "SHANGHAI"
     ELSE IF active("Paris") THEN "MERGE"
     ELSE IF active("London") THEN "LONDON"
     ELSE IF active("Berlin") THEN "BERLIN"
     ELSE IF active("Istanbul") THEN "ISTANBUL"
     ELSE IF active("Petersburg") THEN "PETERSBURG"
     ELSE IF active("Byzantium") THEN "BYZANTIUM"
     ELSE IF active("SpuriousDragon") THEN "SPURIOUS_DRAGON"
     ELSE IF active("Tangerine") THEN "TANGERINE"
     ELSE IF active("Homestead") THEN "HOMESTEAD"
     ELSE IF active("Frontier") THEN "FRONTIER"
     ELSE Panic

\* TraverseEvmConfig::new
new ==
  /\ chain_spec = None
  /\ \E spec \in ChainSpecs : chain_spec' = Some(spec)
  /\ UNCHANGED <<header, evm_env>>
  /\ UNCHANGED <<walletVars, timeVars, storage, proof_request, proof_response,
                 handler, loaded_precompiles>>

\* fill_cfg_env for a header: the spec id of the header, or the panic
fill_cfg_env ==
  /\ chain_spec # None
  /\ \E hdr \in Headers :
       /\ header' = Some(hdr)
       /\ evm_env' = Some([spec_id |-> revm_spec(chain_spec.val, hdr),
                           is_optimism |-> TRUE,
                           block_number |-> None])
  /\ UNCHANGED chain_spec
  /\ UNCHANGED <<walletVars, timeVars, storage, proof_request, proof_response,
                 handler, loaded_precompiles>>

\* next_cfg_and_block_env for a parent header: the spec id of the parent,
\* and the block environment of the block after it
next_cfg_and_block_env ==
  /\ chain_spec # None
  /\ \E parent \in Headers :
       /\ header' = Some(parent)
       /\ evm_env' = Some([spec_id |-> revm_spec(chain_spec.val, parent),
                           is_optimism |-> TRUE,
                           block_number |-> Some(parent.number + 1)])
  /\ UNCHANGED chain_spec
  /\ UNCHANGED <<walletVars, timeVars, storage, proof_request, proof_response,
                 handler, loaded_precompiles>>

NextFork == new \/ fill_cfg_env \/ next_cfg_and_block_env
SpecFork == InitNode /\ [][NextFork]_vars

(***************************************************************************)
(* Properties.                                                             *)
(***************************************************************************)
Started(r) == pc[r] # "idle"
Holding(r) == pc[r] \in HoldingPoints
Terminated(r) == pc[r] \in {"done", "cancelled", "panicked"}

\* C1: at most one call at a time is between the acquisition of the permit
\* and its return, so no two calls are inside Upstream::estimate or
\* Upstream::sign_and_send together, and the call that is there holds the permit.
C1_OneInFlight ==
  /\ \A r1, r2 \in Reqs : Holding(r1) /\ Holding(r2) => r1 = r2
  /\ \A r \in Reqs : Holding(r) => permit = r

\* C1 witness: a call is inside sign_and_send while another waits for the permit.
C1_Witness ==
  \E r1, r2 \in Reqs : r1 # r2 /\ pc[r1] \in SignPoints /\ pc[r2] = "lock"

\* C2: the transactions the backend accepted carry the nonces 0, 1, 2, ... in
\* the order of their submission (distinct, sequential, no gap); every call
\* that returned a hash has its transaction among them; and when all N calls
\* returned a hash, N transactions were submitted.
C2_SequentialNonces ==
  /\ \A i \in 1..Len(submitted) : submitted[i].tx.nonce = Some(i - 1)
  /\ \A r \in Reqs :
       result[r].ok =>
         \E i \in 1..Len(submitted) :
           submitted[i] = Envelope(r) /\ result[r].hash = TxHashOf(submitted[i])
  /\ (\A r \in Reqs : result[r].ok) => Len(submitted) = NumReqs

\* C2 witness: all N calls returned a hash.
C2_Witness == \A r \in Reqs : pc[r] = "done" /\ result[r].ok

\* C3: the permit is held by no call that has returned, by no call that has
\* not acquired it yet, and is free whenever no call is between acquisition
\* and return.
C3_PermitReleased ==
  /\ \A r \in Reqs : pc[r] \in {"idle", "get_code", "lock", "done", "panicked"} => permit # r
  /\ (\A r \in Reqs : ~Holding(r)) => permit = NoReq

\* C3 witness: calls have returned from the gas cap rejection and from an
\* error after acquisition, and the permit is free.
C3_Witness ==
  /\ \E r \in Reqs : pc[r] = "done" /\ result[r].kind = "GasEstimateTooHigh"
  /\ \E r \in Reqs :
       pc[r] = "done" /\ result[r].kind = "InternalError"
         /\ "sign_and_send" \in CallOps(r)
  /\ permit = NoReq

\* C4: a call cancelled at a suspension point does not hold the permit
\* afterwards: the permit is free unless another call holds it, so a call
\* waiting for it can acquire it.
C4_CancelFreesPermit ==
  \A r \in Reqs :
    pc[r] = "cancelled" =>
      /\ permit # r
      /\ (\A h \in Reqs : ~Holding(h)) =>
           /\ permit = NoReq
           /\ \A w \in Reqs : pc[w] = "lock" => ENABLED Lock(w)

\* C4 witness: a call was cancelled inside sign_and_send and a later call
\* holds the permit.
C4_Witness ==
  \E r, w \in Reqs :
    /\ pc[r] = "cancelled" /\ "sign_and_send" \in CallOps(r)
    /\ Holding(w) /\ permit = w

\* a call waits for the permit while no call can take a step
Deadlocked ==
  /\ \E w \in Reqs : pc[w] = "lock"
  /\ \A r \in Reqs : ~ENABLED Step(r, ConcDomain)

\* C5: no state has calls waiting for the permit while no call can take a
\* step, and, the Upstream calls returning and the permit being granted
\* fairly, every call that is not cancelled eventually returns a hash or an
\* error.
C5_EveryCallReturns ==
  /\ []~Deadlocked
  /\ \A r \in Reqs : Started(r) ~> (pc[r] \in {"done", "cancelled"})

\* C5, what the code does: the same, where a call may also end in the panic
\* of Address::from_slice.
C5_EveryCallEnds ==
  /\ []~Deadlocked
  /\ \A r \in Reqs : Started(r) ~> Terminated(r)

\* the fields of the request a call was made with
ValueNonZero(r) == inbound[r].value # None /\ inbound[r].value.val # 0
FromIsSet(r) == inbound[r].from # None
NonceIsSet(r) == inbound[r].nonce # None
HasAuthList(r) == inbound[r].authorization_list # None

\* C6: a call whose request has a nonzero value has returned ValueNotZero,
\* has made no Upstream call and has not acquired the permit.
C6_NonZeroValueRejected ==
  \A r \in Reqs :
    Started(r) /\ ValueNonZero(r) =>
      /\ pc[r] = "done"
      /\ result[r] = Err("ValueNotZero")
      /\ calls[r] = <<>>
      /\ estimated[r] = None
      /\ permit # r

\* C6 witness: a request with a nonzero value, from and nonce set and an
\* authorization list was rejected with ValueNotZero.
C6_Witness ==
  \E r \in Reqs :
    /\ ValueNonZero(r) /\ FromIsSet(r) /\ NonceIsSet(r) /\ HasAuthList(r)
    /\ result[r].kind = "ValueNotZero"

\* C7 as stated: every request with from set is answered FromSet and every
\* request with nonce set is answered NonceSet, whatever the other two fields.
C7_Independent ==
  \A r \in Reqs :
    Started(r) =>
      /\ FromIsSet(r) => result[r] = Err("FromSet")
      /\ NonceIsSet(r) => result[r] = Err("NonceSet")

\* C7 amended: a request with from set is answered FromSet when its value is
\* absent or zero, whatever its nonce; a request with nonce set is answered
\* NonceSet when its value is absent or zero and its from is absent; every
\* request with from or nonce set is rejected by the policy.
C7_FirstFailureReported ==
  \A r \in Reqs :
    Started(r) =>
      /\ FromIsSet(r) /\ ~ValueNonZero(r) => result[r] = Err("FromSet")
      /\ NonceIsSet(r) /\ ~FromIsSet(r) /\ ~ValueNonZero(r) => result[r] = Err("NonceSet")
      /\ FromIsSet(r) \/ NonceIsSet(r) =>
           result[r].kind \in {"ValueNotZero", "FromSet", "NonceSet"}

\* C7 witness: a request with from and nonce both set and a zero value was
\* answered FromSet.
C7_Witness ==
  \E r \in Reqs :
    /\ FromIsSet(r) /\ NonceIsSet(r) /\ inbound[r].value = Some(0)
    /\ result[r] = Err("FromSet")

\* C8: validate_tx_request returns Ok exactly when value is absent or zero,
\* from is absent and nonce is absent, and otherwise the error of the first
\* violated check in the order value, from, nonce.
C8_PolicyOrder ==
  \A r \in Reqs :
    Started(r) =>
      /\ policy[r] = "Ok" <=> ~ValueNonZero(r) /\ ~FromIsSet(r) /\ ~NonceIsSet(r)
      /\ ValueNonZero(r) => policy[r] = "ValueNotZero"
      /\ ~ValueNonZero(r) /\ FromIsSet(r) => policy[r] = "FromSet"
      /\ ~ValueNonZero(r) /\ ~FromIsSet(r) /\ NonceIsSet(r) => policy[r] = "NonceSet"
      /\ policy[r] # "Ok" => result[r] = Err(policy[r])

\* C8 witness: a request with value nonzero and from set was answered
\* ValueNotZero, the first violated check.
C8_Witness ==
  \E r \in Reqs :
    /\ ValueNonZero(r) /\ FromIsSet(r) /\ ~NonceIsSet(r)
    /\ policy[r] = "ValueNotZero"

\* C9: a call whose gas estimate is at least 350,000 has returned
\* GasEstimateTooHigh carrying that estimate and has not called sign_and_send;
\* a call whose gas estimate is below 350,000 has called sign_and_send and is
\* not answered GasEstimateTooHigh.
C9_GasCap ==
  \A r \in Reqs :
    estimated[r] # None /\ estimated[r].val.ok =>
      LET gas == estimated[r].val.gas
      IN /\ gas >= 350000 =>
              /\ pc[r] = "done"
              /\ result[r] = GasEstimateTooHigh(gas)
              /\ "sign_and_send" \notin CallOps(r)
         /\ gas < 350000 =>
              /\ result[r].kind # "GasEstimateTooHigh"
              /\ "sign_and_send" \in CallOps(r)

\* C9 witness: an estimate of exactly 350,000 was rejected.
C9_Witness ==
  \E r \in Reqs :
    /\ estimated[r] # None /\ estimated[r].val.ok /\ estimated[r].val.gas = 350000
    /\ result[r] = GasEstimateTooHigh(350000)

\* C10: a call whose request carries an authorization list and passes the
\* policy never calls get_code, is never answered IllegalDestination and
\* never panics in the code match: it waits for the permit or has acquired
\* it, unless it was cancelled while waiting.
C10_AuthListPasses ==
  \A r \in Reqs :
    Started(r) /\ HasAuthList(r) /\ policy[r] = "Ok" =>
      /\ "get_code" \notin CallOps(r)
      /\ result[r].kind # "IllegalDestination"
      /\ pc[r] \notin {"get_code", "panicked"}
      /\ pc[r] \notin {"lock", "cancelled"} => "estimate" \in CallOps(r)

\* C10 witness: a call with an authorization list reached sign_and_send while
\* its destination held code that is no delegation.
C10_Witness ==
  \E r \in Reqs :
    /\ HasAuthList(r) /\ inbound[r].to = Some(TxCall(DestAddress))
    /\ code = CodePlain
    /\ "sign_and_send" \in CallOps(r)

\* the fields of the request a call was made with, and what its Upstream
\* calls were handed and returned
IsCreation(r) == inbound[r].to = None \/ inbound[r].to = Some(TxCreate)
Called(r, op) == op \in CallOps(r)
CallArgs(r, op) == {calls[r][i].arg : i \in {j \in 1..Len(calls[r]) : calls[r][j].op = op}}
FetchedCode(r) == fetched[r] # None /\ fetched[r].val.got.ok
FetchedBytes(r) == fetched[r].val.got.bytes
Rejected(r, kind) == pc[r] = "done" /\ result[r] = Err(kind)
\* the bytes are 0xEF0100 followed by a 20-byte address
IsDesignator(bytes) ==
  Len(bytes) = 23 /\ bytes[1] = 239 /\ bytes[2] = 1 /\ bytes[3] = 0
DelegateOf(bytes) == SubSeq(bytes, 4, 23)

\* C11 as stated: every creation-type request that passes the policy is
\* answered IllegalDestination, without estimate or sign_and_send, whatever
\* its other fields.
C11_CreationRejected ==
  \A r \in Reqs :
    Started(r) /\ policy[r] = "Ok" /\ IsCreation(r) =>
      /\ Rejected(r, "IllegalDestination")
      /\ ~Called(r, "estimate") /\ ~Called(r, "sign_and_send")

\* C11 amended: every creation-type request without an authorization list
\* that passes the policy is answered IllegalDestination, without any
\* Upstream call, whatever its other fields.
C11_PlainCreationRejected ==
  \A r \in Reqs :
    Started(r) /\ policy[r] = "Ok" /\ IsCreation(r) /\ ~HasAuthList(r) =>
      /\ Rejected(r, "IllegalDestination")
      /\ calls[r] = <<>>

\* C11 witness: a request without `to`, with gas, gas price and chain id
\* supplied, was answered IllegalDestination.
C11_Witness ==
  \E r \in Reqs :
    /\ inbound[r].to = None /\ ~HasAuthList(r)
    /\ inbound[r].gas # None /\ inbound[r].gas_price # None /\ inbound[r].chain_id # None
    /\ Rejected(r, "IllegalDestination")

\* C12: a call whose get_code returned 0xEF0100 followed by the zero address
\* has returned IllegalDestination and has not acquired the permit.
C12_ClearedRejected ==
  \A r \in Reqs :
    FetchedCode(r) /\ FetchedBytes(r) = <<239, 1, 0>> \o [i \in 1..20 |-> 0] =>
      /\ Rejected(r, "IllegalDestination")
      /\ ~Called(r, "estimate")
      /\ permit # r

\* C12 witness: a cleared delegation was fetched and rejected.
C12_Witness ==
  \E r \in Reqs :
    FetchedCode(r) /\ FetchedBytes(r) = CodeCleared /\ Rejected(r, "IllegalDestination")

C14_NoDelegationRejected ==
  \A r \in Reqs :
    FetchedCode(r)
      /\ (FetchedBytes(r) = <<>> \/ Len(FetchedBytes(r)) < 3
            \/ SubSeq(FetchedBytes(r), 1, 3) # <<239, 1, 0>>) =>
        /\ Rejected(r, "IllegalDestination")
        /\ ~Called(r, "estimate") /\ ~Called(r, "sign_and_send")

\* C14 witness: a destination with code that is no delegation was rejected.
C14_Witness ==
  \E r \in Reqs :
    FetchedCode(r) /\ FetchedBytes(r) = CodePlain /\ Rejected(r, "IllegalDestination")

\* C15: the transaction handed to sign_and_send has gas, max_fee_per_gas and
\* max_priority_fee_per_gas equal to what estimate returned to the same call,
\* an estimate below 350,000, and no gas_price.
C15_PopulatedFromEstimate ==
  \A r \in Reqs :
    \A tx \in CallArgs(r, "sign_and_send") :
      /\ estimated[r] # None /\ estimated[r].val.ok
      /\ estimated[r].val.gas < 350000
      /\ tx.gas = Some(estimated[r].val.gas)
      /\ tx.max_fee_per_gas = Some(estimated[r].val.max_fee_per_gas)
      /\ tx.max_priority_fee_per_gas = Some(estimated[r].val.max_priority_fee_per_gas)
      /\ tx.gas_price = None

\* C15 witness: a request that supplied gas and gas_price reached sign_and_send.
C15_Witness ==
  \E r \in Reqs :
    /\ inbound[r].gas # None /\ inbound[r].gas_price # None
    /\ Called(r, "sign_and_send")

\* C16: when every call made has returned, valid_count + invalid_count is
\* the number of calls that returned.
C16_CounterSum ==
  (\A r \in Reqs : pc[r] \in {"idle", "done"}) =>
    valid_calls + invalid_calls = Cardinality({r \in Reqs : pc[r] = "done"})

\* C17: valid_count is the number of calls that called sign_and_send,
\* whatever sign_and_send returned; invalid_count is the number of calls
\* rejected by the policy, the destination check, a failed estimate or the
\* gas cap; no call is counted in both.
EstimateFailed(r) == estimated[r] # None /\ ~estimated[r].val.ok
CountedInvalid(r) ==
  /\ pc[r] = "done"
  /\ \/ result[r].kind \in {"ValueNotZero", "FromSet", "NonceSet", "IllegalDestination",
                            "GasEstimateTooHigh"}
     \/ EstimateFailed(r)

C17_ValidCountsSignatures ==
  /\ valid_calls = Cardinality({r \in Reqs : Called(r, "sign_and_send")})
  /\ invalid_calls = Cardinality({r \in Reqs : CountedInvalid(r)})
  /\ \A r \in Reqs : ~(Called(r, "sign_and_send") /\ CountedInvalid(r))

\* C17 witness: one call failed inside sign_and_send and another was rejected
\* by the gas cap.
C17_Witness ==
  \E r1, r2 \in Reqs :
    /\ Called(r1, "sign_and_send") /\ Rejected(r1, "InternalError")
    /\ pc[r2] = "done" /\ result[r2].kind = "GasEstimateTooHigh"

\* C18: every transaction handed to estimate or to sign_and_send, and every
\* transaction submitted, has from equal to the signer address and chain_id
\* equal to the service's chain id.
C18_IdentitySet ==
  /\ \A r \in Reqs :
       \A tx \in CallArgs(r, "estimate") \cup CallArgs(r, "sign_and_send") :
         tx.from = Some(SignerAddress) /\ tx.chain_id = Some(ServiceChainId)
  /\ \A i \in 1..Len(submitted) :
       /\ submitted[i].tx.from = Some(SignerAddress)
       /\ submitted[i].tx.chain_id = Some(ServiceChainId)
       /\ submitted[i].signer = SignerAddress

\* C18 witness: a request that supplied another chain id reached sign_and_send.
C18_Witness ==
  \E r \in Reqs :
    /\ inbound[r].chain_id # None /\ inbound[r].chain_id # Some(ServiceChainId)
    /\ Called(r, "sign_and_send")

\* C19: a call whose destination delegates to an address outside the
\* DelegationCapability is rejected.
C19_CapabilityEnforced ==
  \A r \in Reqs :
    FetchedCode(r) /\ IsDesignator(FetchedBytes(r))
      /\ DelegateOf(FetchedBytes(r)) \notin DelegationCapability =>
        /\ Rejected(r, "IllegalDestination")
        /\ ~Called(r, "estimate")

\* C20: a get_code whose lookup failed returned an error, and the call
\* returned InternalError.
C20_LookupFailureIsError ==
  \A r \in Reqs :
    fetched[r] # None /\ fetched[r].val.fault # "none" =>
      /\ ~fetched[r].val.got.ok
      /\ Rejected(r, "InternalError")

\* C21: estimate returns a (gas, fee) pair exactly when neither the gas
\* estimation nor the fee estimation failed; a call whose estimate failed has
\* returned InternalError, does not hold the permit and has not called
\* sign_and_send.
C21_EstimateFailsAsUnit ==
  \A r \in Reqs :
    estimated[r] # None =>
      /\ estimated[r].val.ok <=> estimated[r].val.fault = "none"
      /\ ~estimated[r].val.ok =>
           /\ Rejected(r, "InternalError")
           /\ permit # r
           /\ ~Called(r, "sign_and_send")

\* C21 witness: with each backend, a call whose fee estimation alone failed
\* was answered InternalError.
C21_Witness ==
  \E r \in Reqs :
    /\ estimated[r] # None /\ estimated[r].val.fault = "fee"
    /\ Rejected(r, "InternalError")

\* how often a call invoked an Upstream operation, and the last one it invoked
OpCount(r, op) == Cardinality({i \in 1..Len(calls[r]) : calls[r][i].op = op})
LastOp(r) == calls[r][Len(calls[r])].op
SignFailed(r) == sent[r] # None /\ ~sent[r].val.ok

\* C22: a call invokes get_code, estimate and sign_and_send at most once
\* each, and a call to which one of them returned an error has returned, the
\* failed operation being the last one it invoked.
C22_NoRetry ==
  \A r \in Reqs :
    /\ \A op \in {"get_code", "estimate", "sign_and_send"} : OpCount(r, op) <= 1
    /\ fetched[r] # None /\ ~fetched[r].val.got.ok =>
         pc[r] = "done" /\ ~result[r].ok /\ LastOp(r) = "get_code"
    /\ EstimateFailed(r) =>
         pc[r] = "done" /\ ~result[r].ok /\ LastOp(r) = "estimate"
    /\ SignFailed(r) =>
         pc[r] = "done" /\ ~result[r].ok /\ LastOp(r) = "sign_and_send"

\* C22 witness: a call has returned after the one estimate it invoked failed.
C22_Witness ==
  \E r \in Reqs : pc[r] = "done" /\ EstimateFailed(r) /\ OpCount(r, "estimate") = 1

\* C23: a call to which sign_and_send returned has returned the same hash or
\* the same error, to the caller too; a call that returned a hash got it from
\* sign_and_send, for a transaction the backend accepted.
C23_SignResultPropagated ==
  \A r \in Reqs :
    /\ sent[r] # None =>
         /\ pc[r] = "done"
         /\ result[r] = sent[r].val
         /\ response[r].ok = sent[r].val.ok
         /\ response[r].hash = sent[r].val.hash
    /\ result[r].ok =>
         /\ sent[r] = Some(Ok(result[r].hash))
         /\ \E i \in 1..Len(submitted) :
              submitted[i] = Envelope(r) /\ TxHashOf(submitted[i]) = result[r].hash

\* C23 witness: sign_and_send returned a hash to one call and an error to
\* another.
C23_Witness ==
  \E r1, r2 \in Reqs :
    /\ sent[r1] # None /\ sent[r1].val.ok /\ result[r1].ok
    /\ SignFailed(r2) /\ Rejected(r2, "InternalError")

\* the variants of TraverseWalletError
WalletErrors ==
  {Err(kind) : kind \in {"ValueNotZero", "FromSet", "NonceSet", "IllegalDestination",
                         "InvalidTransactionRequest", "InternalError"}}
    \cup {GasEstimateTooHigh(gas) : gas \in GasEstimates}

\* C24: every variant of TraverseWalletError is converted into an error
\* object with the invalid-params code -32602 and the text of the variant,
\* and that is what the caller of every call that returned an error received.
C24_InvalidParams ==
  /\ \A error \in WalletErrors :
       /\ ErrorObjectFrom(error).code = -32602
       /\ ErrorObjectFrom(error).message = to_string(error)
  /\ \A r \in Reqs :
       pc[r] = "done" /\ ~result[r].ok =>
         /\ ~response[r].ok
         /\ response[r].code = -32602
         /\ response[r].message = to_string(result[r])
         /\ result[r].kind = "GasEstimateTooHigh" =>
              response[r].message[2] = estimated[r].val.gas

\* C24 witness: a call was answered InternalError with the invalid-params code.
C24_Witness ==
  \E r \in Reqs :
    /\ Rejected(r, "InternalError")
    /\ response[r].code = -32602 /\ response[r].message = <<ReportText>>

\* C25: a proof served has no account proof exactly when the address is the
\* withdrawal contract, and then has the storage proofs of the requested
\* keys, in their order; for every other address it is what the default
\* eth_getProof returns.
C25_ProofOverride ==
  proof_response # None /\ proof_response.val.ok =>
    LET q == proof_request.val
        p == proof_response.val
    IN /\ (Len(p.account_proof) = 0) <=> (q.address = WITHDRAWAL_CONTRACT)
       /\ q.address = WITHDRAWAL_CONTRACT =>
            /\ Len(p.storage_proof) = Len(q.keys)
            /\ \A i \in 1..Len(q.keys) :
                 /\ p.storage_proof[i].key = q.keys[i]
                 /\ p.storage_proof[i].value = q.state[WITHDRAWAL_CONTRACT][q.keys[i].slot]
       /\ q.address # WITHDRAWAL_CONTRACT =>
            p = DefaultGetProof(q.state, q.address, q.keys)

\* C25 witness: a storage proof of the withdrawal contract was served after
\* a block had written the slot.
C25_Witness ==
  /\ proof_response # None /\ proof_response.val.ok
  /\ proof_request.val.address = WITHDRAWAL_CONTRACT
  /\ Len(proof_response.val.storage_proof) > 0
  /\ proof_response.val.storage_proof[1].value = 1

\* C26: the precompiles loaded for a handler contain p256_verify at address
\* 0x14 and at address 0x100, and every default precompile of the handler's
\* spec id.
C26_P256Installed ==
  loaded_precompiles # None =>
    LET loaded == loaded_precompiles.val
        defaults == DefaultPrecompiles(PrecompileSpecId(handler.val.spec_id))
    IN /\ 20 \in DOMAIN loaded /\ loaded[20] = "p256_verify"
       /\ 256 \in DOMAIN loaded /\ loaded[256] = "p256_verify"
       /\ \A a \in DOMAIN defaults : a \in DOMAIN loaded /\ loaded[a] = defaults[a]

\* C26 witness: the precompiles of a handler built for FRONTIER with an
\* inspector were loaded.
C26_Witness ==
  /\ loaded_precompiles # None
  /\ handler.val.spec_id = "FRONTIER"
  /\ Len(handler.val.registers) = 2

\* C27: a call whose get_code returned code that starts with 0xEF0100 and is
\* not 23 bytes long has returned IllegalDestination.
C27_MalformedDesignatorRejected ==
  \A r \in Reqs :
    FetchedCode(r) /\ Len(FetchedBytes(r)) >= 3 /\ Len(FetchedBytes(r)) # 23
      /\ SubSeq(FetchedBytes(r), 1, 3) = <<239, 1, 0>> =>
        Rejected(r, "IllegalDestination")

\* C28: every transaction handed to sign_and_send has value absent or zero
\* and no nonce; inside sign_and_send its nonce is the next available nonce
\* of the backend, and every submitted transaction has value absent or zero.
C28_NoValueBackendNonce ==
  /\ \A r \in Reqs :
       /\ \A tx \in CallArgs(r, "sign_and_send") :
            /\ tx.value = None \/ tx.value = Some(0)
            /\ tx.nonce = None
       /\ pc[r] \in {"build", "send_raw"} => request[r].nonce = Some(next_available_nonce)
  /\ \A i \in 1..Len(submitted) :
       /\ submitted[i].tx.value = None \/ submitted[i].tx.value = Some(0)
       /\ submitted[i].tx.nonce = Some(i - 1)

\* C28 witness: a request with value zero was submitted.
C28_Witness ==
  \E r \in Reqs :
    /\ inbound[r].value = Some(0)
    /\ \E i \in 1..Len(submitted) : submitted[i] = Envelope(r)

\* a call was rejected by the policy, the destination match or get_code
RejectedBeforePermit(r) ==
  /\ pc[r] = "done"
  /\ \/ result[r].kind \in {"ValueNotZero", "FromSet", "NonceSet", "IllegalDestination"}
     \/ fetched[r] # None /\ ~fetched[r].val.got.ok

\* C29: a call that has not been validated yet, or waits for get_code, can
\* take its step whoever holds the permit; a call rejected by the policy, the
\* destination match or get_code never held the permit and called neither
\* estimate nor sign_and_send.
C29_ValidationWithoutPermit ==
  \A r \in Reqs :
    /\ pc[r] = "idle" => ENABLED SendTransaction(r, ConcDomain)
    /\ pc[r] = "get_code" => ENABLED GetCodeReturn(r)
    /\ pc[r] \in {"idle", "get_code"} => permit # r
    /\ RejectedBeforePermit(r) =>
         /\ permit # r
         /\ estimated[r] = None
         /\ ~Called(r, "estimate") /\ ~Called(r, "sign_and_send")

\* C29 witness: a call waits for get_code while another call holds the permit.
C29_Witness ==
  \E r1, r2 \in Reqs :
    /\ Holding(r1) /\ permit = r1
    /\ pc[r2] = "get_code"

\* the Upstream operations a call invoked, in their order
Ops(r) == [i \in 1..Len(calls[r]) |-> calls[r][i].op]

\* C30: the Upstream operations of a call are get_code (call-type requests
\* without authorization list only), estimate, sign_and_send, in that order;
\* a call inside estimate holds the permit; a call inside sign_and_send holds
\* the permit and its estimate returned gas below 350,000.
C30_FixedOrder ==
  \A r \in Reqs :
    /\ Ops(r) \in {<<>>, <<"get_code">>, <<"get_code", "estimate">>,
                   <<"get_code", "estimate", "sign_and_send">>,
                   <<"estimate">>, <<"estimate", "sign_and_send">>}
    /\ Called(r, "get_code") =>
         ~HasAuthList(r) /\ inbound[r].to # None /\ inbound[r].to.val.kind = "Call"
    /\ Called(r, "get_code") /\ Called(r, "estimate") => FetchedCode(r)
    /\ pc[r] = "estimate" => permit = r
    /\ pc[r] \in SignPoints => permit = r
    /\ Called(r, "sign_and_send") =>
         /\ estimated[r] # None /\ estimated[r].val.ok
         /\ estimated[r].val.gas < 350000

\* C30 witness: a call invoked get_code, estimate and sign_and_send and
\* returned a hash.
C30_Witness ==
  \E r \in Reqs :
    Ops(r) = <<"get_code", "estimate", "sign_and_send">> /\ result[r].ok

\* the chain holds a delegation to a nonzero address at the destination of
\* the request call r was made with
DestinationDelegated(r) ==
  LET bytes == account_code(inbound[r].to.val.addr)
  IN IsDesignator(bytes) /\ \E i \in 1..20 : DelegateOf(bytes)[i] # 0

\* C31: in the step in which a call-type request without authorization list
\* invokes sign_and_send, the chain holds a delegation to a nonzero address at
\* its destination.
C31_DelegatedWhenSigned ==
  [][\A r \in Reqs :
       /\ pc[r] = "estimate" /\ pc'[r] = "next_nonce"
       /\ ~HasAuthList(r) /\ inbound[r].to # None /\ inbound[r].to.val.kind = "Call"
       => DestinationDelegated(r)]_vars

\* C32: the transaction handed to estimate and to sign_and_send has the to,
\* value, input, authorization_list and nonce of the inbound request.
C32_OnlyCoordinatorFields ==
  \A r \in Reqs :
    \A tx \in CallArgs(r, "estimate") \cup CallArgs(r, "sign_and_send") :
      /\ tx.to = inbound[r].to
      /\ tx.value = inbound[r].value
      /\ tx.input = inbound[r].input
      /\ tx.authorization_list = inbound[r].authorization_list
      /\ tx.nonce = inbound[r].nonce

\* C32 witness: a request with an authorization list and no value reached
\* sign_and_send with gas, gas price and chain id replaced.
C32_Witness ==
  \E r \in Reqs :
    /\ HasAuthList(r) /\ inbound[r].value = None
    /\ inbound[r].gas # None /\ inbound[r].gas_price # None /\ inbound[r].chain_id # None
    /\ Called(r, "sign_and_send")

\* C33: with the Reth backend, inside sign_and_send the nonce lookup comes
\* first and sets the nonce to the next available nonce of the pool, build
\* and sign follows, the submission comes last and submits the transaction
\* with that nonce; a call whose nonce lookup or build failed returns
\* InternalError and nothing is submitted.
C33_RethSignOrder ==
  [][backend = "reth" =>
       \A r \in Reqs :
         /\ pc'[r] = "build" =>
              /\ pc[r] \in {"next_nonce", "build"}
              /\ request'[r].nonce = Some(pool_nonce')
         /\ pc'[r] = "send_raw" =>
              /\ pc[r] \in {"build", "send_raw"}
              /\ request'[r].nonce = Some(pool_nonce')
         /\ pc[r] \in {"next_nonce", "build"} /\ pc'[r] = "done" =>
              /\ result'[r] = Err("InternalError")
              /\ submitted' = submitted
         /\ pc[r] \in {"next_nonce", "build"} => submitted' = submitted \/ pc'[r] = pc[r]
         /\ pc[r] = "send_raw" /\ submitted' # submitted =>
              /\ submitted' = Append(submitted, Envelope(r))
              /\ Envelope(r).tx.nonce = Some(pool_nonce)]_vars

\* C33 witness: with the Reth backend one call submitted its transaction
\* with nonce 0, and the next call looked up nonce 1 and then failed to
\* build or submit, which left the pool as it was.
C33_Witness ==
  /\ backend = "reth"
  /\ Len(submitted) = 1 /\ submitted[1].tx.nonce = Some(0)
  /\ \E r1, r2 \in Reqs :
       /\ pc[r1] = "done" /\ sent[r1] # None /\ sent[r1].val.ok
       /\ submitted[1] = Envelope(r1)
       /\ pc[r2] = "done" /\ SignFailed(r2) /\ request[r2].nonce = Some(1)

\* C34: traverse_getWallTimeData answers the error "node is not synced"
\* exactly when no notification had been processed at its read of the
\* tracked data, and otherwise succeeds with the tip timestamp of the
\* notification processed last; the tracked data is empty exactly until the
\* first notification is processed and never becomes empty again.
C34_SyncedAfterFirstNotification ==
  /\ [](/\ block_time_data = None <=> processed = None
        /\ processed # None =>
             block_time_data.val.block_timestamp = processed.val
        /\ time_response # None =>
             LET res == time_response.val.result
                 at_read == time_response.val.at_read
             IN /\ ~res.ok <=> at_read = None
                /\ ~res.ok =>
                     /\ res.code = INTERNAL_ERROR_CODE
                     /\ res.message = "node is not synced"
                /\ res.ok =>
                     res.data.val.last_block_timestamp = at_read.val)
  /\ [][/\ block_time_data # None => block_time_data' # None
        /\ processed' # processed => listener.at = "write"
        /\ time_call = None /\ time_call' # None =>
             time_call'.val.at_read = processed]_vars

\* C34 witness: a call succeeded with a block timestamp that differs from
\* the wall time of that block, and a later notification with another
\* timestamp has been processed since.
C34_Witness ==
  /\ time_response # None /\ time_response.val.result.ok
  /\ LET data == time_response.val.result.data.val
     IN /\ data.last_block_timestamp # data.last_block_wall_time_ms
        /\ block_time_data.val.block_timestamp # data.last_block_timestamp

\* the priority order of the hardforks, and the spec id of each
ForkPriority ==
  <<"Prague", "Granite", "Fjord", "Ecotone", "Canyon", "Regolith", "Bedrock",
    "Cancun", "Shanghai", "Paris", "London", "Berlin", "Istanbul",
    "Petersburg", "Byzantium", "SpuriousDragon", "Tangerine", "Homestead",
    "Frontier">>
ForkSpecIds ==
  <<"OSAKA", "GRANITE", "FJORD", "ECOTONE", "CANYON", "REGOLITH", "BEDROCK",
    "CANCUN", "SHANGHAI", "MERGE", "LONDON", "BERLIN", "ISTANBUL",
    "PETERSBURG", "BYZANTIUM", "SPURIOUS_DRAGON", "TANGERINE", "HOMESTEAD",
    "FRONTIER">>
ActiveAtHeader(f) ==
  active_at_timestamp_or_number(chain_spec.val[f], header.val.timestamp,
                                header.val.number)
ActiveRanks == {i \in 1..Len(ForkPriority) : ActiveAtHeader(ForkPriority[i])}

\* C35: the spec id configured for a header is that of the first hardfork
\* of the priority order that is active at the header: OSAKA, never PRAGUE,
\* when Prague is active, the id of an Optimism hardfork when one is active
\* and Prague is not, and the panic exactly when none of them is active.
C35_FirstActiveFork ==
  evm_env # None =>
    LET spec_id == evm_env.val.spec_id
    IN /\ ActiveRanks # {} =>
            \E i \in ActiveRanks :
              /\ \A j \in ActiveRanks : i <= j
              /\ spec_id = ForkSpecIds[i]
       /\ ActiveAtHeader("Prague") => spec_id = "OSAKA"
       /\ spec_id # "PRAGUE"
       /\ (\E i \in 2..7 : i \in ActiveRanks) /\ ~ActiveAtHeader("Prague") =>
            spec_id \in {ForkSpecIds[i] : i \in 2..7}
       /\ spec_id = Panic <=> ActiveRanks = {}
       /\ spec_id # Panic => spec_id \in SpecIds

\* C35 witness: Prague and an Optimism hardfork are both active at the
\* header, and the environment was configured for it.
C35_Witness ==
  /\ evm_env # None
  /\ ActiveAtHeader("Prague")
  /\ \E i \in 2..7 : i \in ActiveRanks
  /\ evm_env.val.spec_id = "OSAKA"
====
